---- MODULE Spec2Model ----
(***************************************************************************)
(* The segmented commit log of proglog (package internal/log): store,      *)
(* index, segment and Log, modelled at the level of the bytes they write.  *)
(* Files are byte sequences; a segment is an object on a heap, so that the *)
(* log's segment list, its activeSegment pointer and the readers made by   *)
(* Log.Reader can keep referring to a segment that was removed.            *)
(***************************************************************************)
EXTENDS Integers, Sequences, FiniteSets, TLC

(***************************************************************************)
(* Bounds of the model.                                                    *)
(***************************************************************************)
\* number of Log.Append calls explored on one directory
MaxAppends == 3
\* number of Log.Truncate calls explored
MaxTruncates == 1
\* number of NewLog calls after the first (reopening the directory)
MaxReopens == 1
\* largest offset passed to Log.Read and Log.Truncate
MaxArg == 4
\* number of bytes asked for by one Read of the stream Log.Reader returns
ChunkLen == 16
\* number of log operations the two threads start in the locking model
MaxLockOps == 4
MaxRollAppends == 4
MaxStoreOps == 5

(***************************************************************************)
(* Byte sequences and the encodings the code uses.                         *)
(***************************************************************************)
Min(a, b) == IF a < b THEN a ELSE b

Max(a, b) == IF a > b THEN a ELSE b

\* s[from+1 .. from+n] clipped to s (Go's s[from:from+n] on the bytes present)
Slice(s, from, n) ==
    IF from >= Len(s) \/ n <= 0 THEN <<>>
    ELSE SubSeq(s, from + 1, Min(Len(s), from + n))

\* binary.BigEndian.PutUint32 / PutUint64: w bytes, most significant first
RECURSIVE PutUint(_, _)
PutUint(n, w) ==
    IF w = 0 THEN <<>> ELSE PutUint(n \div 256, w - 1) \o <<n % 256>>

\* binary.BigEndian.Uint32 / Uint64
RECURSIVE Uint(_)
Uint(bs) ==
    IF bs = <<>> THEN 0
    ELSE Uint(SubSeq(bs, 1, Len(bs) - 1)) * 256 + bs[Len(bs)]

lenWidth == 8

offWidth == 4

posWidth == 8

entWidth == offWidth + posWidth

\* bufio.NewWriter(f): the capacity of the writer's buffer.  Go's is 4096; the
\* model scales it down so that a buffer fills within a few appends
bufSize == 16

(***************************************************************************)
(* api.Record and its protobuf encoding (value = field 1, bytes; offset =  *)
(* field 2, uint64; a field holding its zero value is not written).        *)
(***************************************************************************)
RECURSIVE Varint(_)
Varint(n) == IF n < 128 THEN <<n>> ELSE <<128 + (n % 128)>> \o Varint(n \div 128)

Marshal(rec) ==
    (IF rec.value = <<>> THEN <<>>
     ELSE <<10>> \o Varint(Len(rec.value)) \o rec.value)
    \o (IF rec.offset = 0 THEN <<>> ELSE <<16>> \o Varint(rec.offset))

\* the length of the varint starting at bs[i]
RECURSIVE VarintLen(_, _)
VarintLen(bs, i) == IF bs[i] < 128 THEN 1 ELSE 1 + VarintLen(bs, i + 1)

RECURSIVE VarintVal(_, _)
VarintVal(bs, i) ==
    IF bs[i] < 128 THEN bs[i] ELSE (bs[i] - 128) + 128 * VarintVal(bs, i + 1)

RECURSIVE UnmarshalFrom(_, _, _)
UnmarshalFrom(bs, i, rec) ==
    IF i > Len(bs) THEN rec
    ELSE IF bs[i] = 10
         THEN LET n == VarintVal(bs, i + 1)
                  k == VarintLen(bs, i + 1)
              IN  UnmarshalFrom(bs, i + 1 + k + n,
                                [rec EXCEPT !.value = Slice(bs, i + k, n)])
         ELSE LET k == VarintLen(bs, i + 1)
              IN  UnmarshalFrom(bs, i + 1 + k,
                                [rec EXCEPT !.offset = VarintVal(bs, i + 1)])

Unmarshal(bs) == UnmarshalFrom(bs, 1, [value |-> <<>>, offset |-> 0])

(***************************************************************************)
(* store: a file opened O_APPEND behind a bufio.Writer.  A store object is *)
(* [size, buf, werr, closed]: buf the bytes the writer holds, werr the     *)
(* writer's sticky error.  The file's bytes f are passed in and out.  An   *)
(* operator whose name ends in a digit is the rest of the function named   *)
(* before the digit, taking what the call before it returned.              *)
(***************************************************************************)
\* os.File.Write on the store's file: fails once the file is closed
FileWrite(st, f, p) ==
    IF st.closed THEN [f |-> f, n |-> 0, err |-> TRUE]
    ELSE [f |-> f \o p, n |-> Len(p), err |-> FALSE]

BufFlush1(st, f, w) ==
    IF w.err THEN [st |-> [st EXCEPT !.werr = TRUE], f |-> f, err |-> TRUE]
    ELSE [st |-> [st EXCEPT !.buf = <<>>], f |-> w.f, err |-> FALSE]

\* bufio.Writer.Flush
BufFlush(st, f) ==
    IF st.werr THEN [st |-> st, f |-> f, err |-> TRUE]
    ELSE IF st.buf = <<>> THEN [st |-> st, f |-> f, err |-> FALSE]
    ELSE BufFlush1(st, f, FileWrite(st, f, st.buf))

\* bufio.Writer.Write(p), where nn bytes were taken before.  A round of its
\* loop either writes p to the file (empty buffer) or fills the buffer and
\* flushes it; r is what that left, r.n the bytes of p it took
RECURSIVE BufWrite(_, _, _, _)
BufWrite1(p, nn, r) == BufWrite(r.st, r.f, Slice(p, r.n, Len(p)), nn + r.n)

BufWriteDirect(st, w) == [st |-> [st EXCEPT !.werr = w.err], f |-> w.f, n |-> w.n]

BufWriteFill(n, fl) == [st |-> fl.st, f |-> fl.f, n |-> n]

BufWrite(st, f, p, nn) ==
    IF Len(p) > bufSize - Len(st.buf) /\ ~st.werr
    THEN IF st.buf = <<>>
         THEN BufWrite1(p, nn, BufWriteDirect(st, FileWrite(st, f, p)))
         ELSE BufWrite1(p, nn,
                 BufWriteFill(bufSize - Len(st.buf),
                     BufFlush([st EXCEPT !.buf = @ \o Slice(p, 0, bufSize - Len(st.buf))], f)))
    ELSE IF st.werr
         THEN [st |-> st, f |-> f, n |-> nn, err |-> TRUE]
         ELSE [st |-> [st EXCEPT !.buf = @ \o p], f |-> f,
               n |-> nn + Len(p), err |-> FALSE]

\* newStore(f): size is the file's length
newStore(f) == [size |-> Len(f), buf |-> <<>>, werr |-> FALSE, closed |-> FALSE]

\* the bytes of the payload alone
StoreAppendPayload(numBytes) == numBytes

\* what a successful store.Append adds to size
StoreAppendWidth(numBytes) == numBytes + lenWidth

StoreAppend2(st, w2) ==
    IF w2.err
    THEN [st |-> w2.st, f |-> w2.f, n |-> 0, pos |-> 0, err |-> TRUE]
    ELSE [st |-> [w2.st EXCEPT !.size = @ + StoreAppendWidth(w2.n)],
          f |-> w2.f, n |-> StoreAppendWidth(w2.n), pos |-> st.size,
          err |-> FALSE]

StoreAppend1(st, toPersist, w1) ==
    IF w1.err
    THEN [st |-> w1.st, f |-> w1.f, n |-> 0, pos |-> 0, err |-> TRUE]
    ELSE StoreAppend2(st, BufWrite(w1.st, w1.f, toPersist, 0))

\* store.Append(toPersist)
StoreAppend(st, f, toPersist) ==
    StoreAppend1(st, toPersist,
                 BufWrite(st, f, PutUint(Len(toPersist), lenWidth), 0))

\* os.File.ReadAt(p, off) with len(p) = n: the bytes read, and an error when
\* the file is closed or holds fewer than n bytes from off on (io.EOF)
FileReadAt(st, f, off, n) ==
    IF st.closed THEN [bytes |-> <<>>, err |-> TRUE]
    ELSE [bytes |-> Slice(f, off, n), err |-> Len(Slice(f, off, n)) < n]

StoreRead3(fl, body) ==
    [st |-> fl.st, f |-> fl.f,
     bytes |-> IF body.err THEN <<>> ELSE body.bytes, err |-> body.err]

StoreRead2(fl, pos, size) ==
    IF size.err
    THEN [st |-> fl.st, f |-> fl.f, bytes |-> <<>>, err |-> TRUE]
    ELSE StoreRead3(fl, FileReadAt(fl.st, fl.f, pos + lenWidth, Uint(size.bytes)))

StoreRead1(fl, pos) ==
    IF fl.err
    THEN [st |-> fl.st, f |-> fl.f, bytes |-> <<>>, err |-> TRUE]
    ELSE StoreRead2(fl, pos, FileReadAt(fl.st, fl.f, pos, lenWidth))

\* reading the file without writing the buffer out first
StoreReadNoFlush(st, f, pos) ==
    StoreRead1([st |-> st, f |-> f, err |-> FALSE], pos)

\* store.Read(pos)
StoreRead(st, f, pos) == StoreRead1(BufFlush(st, f), pos)

StoreReadAt2(fl, r, n) ==
    [st |-> fl.st, f |-> fl.f, bytes |-> r.bytes,
     err |-> IF fl.st.closed THEN "io"
             ELSE IF r.err THEN "EOF" ELSE "nil"]

StoreReadAt1(fl, off, n) ==
    IF fl.err
    THEN [st |-> fl.st, f |-> fl.f, bytes |-> <<>>, err |-> "io"]
    ELSE StoreReadAt2(fl, FileReadAt(fl.st, fl.f, off, n), n)

\* store.ReadAt(p, off) with len(p) = n: err is "nil", "EOF" or "io"
StoreReadAt(st, f, off, n) == StoreReadAt1(BufFlush(st, f), off, n)

StoreClose1(fl) ==
    IF fl.err \/ fl.st.closed THEN [st |-> fl.st, f |-> fl.f, err |-> TRUE]
    ELSE [st |-> [fl.st EXCEPT !.closed = TRUE], f |-> fl.f, err |-> FALSE]

\* closing the file without writing the buffer out first
StoreCloseNoFlush(st, f) ==
    StoreClose1([st |-> st, f |-> f, err |-> FALSE])

\* store.Close
StoreClose(st, f) == StoreClose1(BufFlush(st, f))

(***************************************************************************)
(* index: a file grown to MaxIndexBytes and memory-mapped.  A file or a    *)
(* mapping is [data, len]: len bytes, of which those after data are zero.  *)
(* An index object is [size, mmap, closed]; while it is open the mapping   *)
(* is shared with the file, so a write goes to both.                       *)
(***************************************************************************)
RECURSIVE StripZeros(_)
StripZeros(bs) ==
    IF bs = <<>> \/ bs[Len(bs)] # 0 THEN bs
    ELSE StripZeros(SubSeq(bs, 1, Len(bs) - 1))

EmptyFile == [data |-> <<>>, len |-> 0]

\* os.Truncate / File.Truncate to n bytes (grows with zeros, or cuts)
FTruncate(f, n) == [data |-> StripZeros(Slice(f.data, 0, n)), len |-> n]

\* the n bytes of f from byte pos on
FBytes(f, pos, n) ==
    [i \in 1..n |-> IF pos + i <= Len(f.data) THEN f.data[pos + i] ELSE 0]

\* f with bs stored at byte pos
FPut(f, pos, bs) ==
    [f EXCEPT !.data =
        StripZeros([i \in 1..Max(Len(f.data), pos + Len(bs)) |->
            IF i > pos /\ i <= pos + Len(bs) THEN bs[i - pos]
            ELSE IF i <= Len(f.data) THEN f.data[i] ELSE 0])]

\* newIndex(f, c): size is the file's length before it is grown
newIndex(f, maxIndexBytes) ==
    [size |-> f.len, mmap |-> FTruncate(f, maxIndexBytes), closed |-> FALSE]

\* the entry index.Read(in) looks at: the last one for in = -1.  The code
\* converts to uint32; every offset of the model is below 2^31, so only a
\* negative number changes under the conversion, and it becomes one of at
\* least 2^31: IndexRead treats a negative entry as lying beyond any size
IndexReadEntry(idx, in) ==
    IF in = -1 THEN (idx.size \div entWidth) - 1 ELSE in

IndexRead1(idx, out) ==
    IF idx.size = 0 THEN [out |-> 0, pos |-> 0, err |-> TRUE]
    ELSE IF out < 0 \/ idx.size < (out * entWidth) + entWidth
    THEN [out |-> 0, pos |-> 0, err |-> TRUE]
    ELSE [out |-> Uint(FBytes(idx.mmap, out * entWidth, offWidth)),
          pos |-> Uint(FBytes(idx.mmap, (out * entWidth) + offWidth, posWidth)),
          err |-> FALSE]

\* index.Read(in)
IndexRead(idx, in) == IndexRead1(idx, IndexReadEntry(idx, in))

\* Whether index.Write has room for one more entry.
IndexHasRoom(idx) == ~(idx.mmap.len < idx.size + entWidth)

\* index.Write(off, pos): err is "nil", "EOF" (no room) or "fault".  Close
\* leaves the mapping in place and cuts the file to size; a store into the
\* mapping of a file cut to 0 bytes touches a page beyond the end of the
\* file, which ends the process (SIGBUS).
IndexWrite(idx, off, pos) ==
    IF ~IndexHasRoom(idx) THEN [idx |-> idx, err |-> "EOF"]
    ELSE IF idx.closed /\ idx.size = 0 THEN [idx |-> idx, err |-> "fault"]
    ELSE [idx |-> [idx EXCEPT
                     !.mmap = FPut(FPut(@, idx.size, PutUint(off, offWidth)),
                                   idx.size + offWidth, PutUint(pos, posWidth)),
                     !.size = @ + entWidth],
          err |-> "nil"]

\* index.Close: the file as it is left (cut to size), or an error when the
\* file was closed before (File.Sync fails)
IndexClose(idx) ==
    IF idx.closed THEN [idx |-> idx, f |-> EmptyFile, err |-> TRUE]
    ELSE [idx |-> [idx EXCEPT !.closed = TRUE],
          f |-> FTruncate(idx.mmap, idx.size), err |-> FALSE]

(***************************************************************************)
(* The file system: whether the log's directory exists, and its files      *)
(* <base>.store and <base>.index, each keyed by the base offset in its     *)
(* name.                                                                   *)
(***************************************************************************)
NoFiles == [x \in {} |-> <<>>]

\* f with key k bound to v (creating the binding when k is new)
Bind(f, k, v) == [x \in DOMAIN f \cup {k} |-> IF x = k THEN v ELSE f[x]]

\* f without key k
Unbind(f, k) == [x \in DOMAIN f \ {k} |-> f[x]]

\* the bytes of a store's file, as its store object sees them
StoreFile(d, base) == IF base \in DOMAIN d.store THEN d.store[base] ELSE <<>>

\* the file of store base after an operation of store object st left it as f:
\* a closed store has not touched it
PutStoreFile(d, base, st, f) ==
    IF base \in DOMAIN d.store /\ ~st.closed
    THEN [d EXCEPT !.store = Bind(@, base, f)] ELSE d

\* the index file follows the shared mapping of an open index
PutIndexFile(d, base, idx) ==
    IF base \in DOMAIN d.index /\ ~idx.closed
    THEN [d EXCEPT !.index = Bind(@, base, idx.mmap)] ELSE d

(***************************************************************************)
(* segment: [baseOffset, nextOffset, store, index].                        *)
(***************************************************************************)
\* nextOffset set to the offset of the last entry, not the one after it
SegmentNextOffsetLast(baseOffset, last) ==
    IF last.err THEN baseOffset ELSE baseOffset + last.out

\* nextOffset as newSegment derives it from last = index.Read(-1)
SegmentNextOffset(baseOffset, last) ==
    IF last.err THEN baseOffset ELSE baseOffset + last.out + 1

newSegment1(d, baseOffset, sf, idx) ==
    [seg |-> [baseOffset |-> baseOffset,
              nextOffset |-> SegmentNextOffset(baseOffset, IndexRead(idx, -1)),
              store |-> newStore(sf),
              index |-> idx],
     d   |-> [d EXCEPT !.store = Bind(@, baseOffset, sf),
                       !.index = Bind(@, baseOffset, idx.mmap)],
     err |-> FALSE]

\* newSegment(dir, baseOffset, c): opens or creates both files; fails when
\* the directory does not exist
newSegment(d, baseOffset, c) ==
    IF ~d.dir THEN [seg |-> <<>>, d |-> d, err |-> TRUE]
    ELSE newSegment1(d, baseOffset, StoreFile(d, baseOffset),
                     newIndex(IF baseOffset \in DOMAIN d.index
                              THEN d.index[baseOffset] ELSE EmptyFile,
                              c.MaxIndexBytes))

\* nextOffset running two ahead for each record
SegmentBumpTwo(nextOffset) == nextOffset + 2

\* the offset after the one segment.Append has just assigned
SegmentBump(nextOffset) == nextOffset + 1

\* what segment.Append returns when the store append failed
SegmentStoreFailure == [offset |-> 0, err |-> "nil"]

SegmentAppend2(seg, d, a, w) ==
    IF w.err # "nil"
    THEN [seg |-> [seg EXCEPT !.store = a.st],
          d |-> PutStoreFile(d, seg.baseOffset, a.st, a.f),
          offset |-> 0, err |-> w.err]
    ELSE [seg |-> [seg EXCEPT !.store = a.st, !.index = w.idx,
                              !.nextOffset = SegmentBump(@)],
          d |-> PutIndexFile(PutStoreFile(d, seg.baseOffset, a.st, a.f),
                             seg.baseOffset, w.idx),
          offset |-> seg.nextOffset, err |-> "nil"]

SegmentAppend1(seg, d, a) ==
    IF a.err
    THEN [seg |-> [seg EXCEPT !.store = a.st],
          d |-> PutStoreFile(d, seg.baseOffset, a.st, a.f),
          offset |-> SegmentStoreFailure.offset, err |-> SegmentStoreFailure.err]
    ELSE SegmentAppend2(seg, d, a,
             IndexWrite(seg.index, seg.nextOffset - seg.baseOffset, a.pos))

\* segment.Append(record): err is "nil", "EOF" or "fault"
SegmentAppend(seg, d, value) ==
    SegmentAppend1(seg, d,
        StoreAppend(seg.store, StoreFile(d, seg.baseOffset),
                    Marshal([value |-> value, offset |-> seg.nextOffset])))

SegmentRead2(seg, d, r) ==
    [seg |-> [seg EXCEPT !.store = r.st],
     d |-> PutStoreFile(d, seg.baseOffset, r.st, r.f),
     value |-> IF r.err THEN <<>> ELSE Unmarshal(r.bytes).value,
     err |-> IF r.err THEN "io" ELSE "nil"]

SegmentRead1(seg, d, e) ==
    IF e.err THEN [seg |-> seg, d |-> d, value |-> <<>>, err |-> "EOF"]
    ELSE SegmentRead2(seg, d,
             StoreRead(seg.store, StoreFile(d, seg.baseOffset), e.pos))

\* segment.Read(off): err is "nil", "EOF" (index) or "io" (store)
SegmentRead(seg, d, off) ==
    SegmentRead1(seg, d, IndexRead(seg.index, off - seg.baseOffset))

\* a segment taken as maxed only once it is over its limits
IsOverMax(seg, c) ==
    \/ seg.store.size > c.MaxStoreBytes
    \/ seg.index.size > c.MaxIndexBytes

\* segment.IsMaxed
IsMaxed(seg, c) ==
    \/ seg.store.size >= c.MaxStoreBytes
    \/ seg.index.size >= c.MaxIndexBytes

SegmentClose2(seg, d, ic, sc) ==
    [seg |-> [seg EXCEPT !.index = ic.idx, !.store = sc.st],
     d |-> PutStoreFile(
               IF seg.baseOffset \in DOMAIN d.index
               THEN [d EXCEPT !.index = Bind(@, seg.baseOffset, ic.f)] ELSE d,
               seg.baseOffset, seg.store, sc.f),
     err |-> sc.err]

SegmentClose1(seg, d, ic) ==
    IF ic.err THEN [seg |-> seg, d |-> d, err |-> TRUE]
    ELSE SegmentClose2(seg, d, ic,
             StoreClose(seg.store, StoreFile(d, seg.baseOffset)))

\* segment.Close: the index, then the store
SegmentClose(seg, d) == SegmentClose1(seg, d, IndexClose(seg.index))

SegmentRemove1(seg, c) ==
    IF c.err THEN c
    ELSE IF seg.baseOffset \notin DOMAIN c.d.index
    THEN [seg |-> c.seg, d |-> c.d, err |-> TRUE]
    ELSE [seg |-> c.seg,
          d |-> [c.d EXCEPT !.index = Unbind(@, seg.baseOffset),
                            !.store = Unbind(@, seg.baseOffset)],
          err |-> FALSE]

\* segment.Remove: Close, then os.Remove of the index and of the store file
SegmentRemove(seg, d) == SegmentRemove1(seg, SegmentClose(seg, d))

(***************************************************************************)
(* Inputs.                                                                 *)
(***************************************************************************)
\* record values handed to Log.Append
Values == {<<7>>, <<8, 9>>}

\* Config values handed to NewLog (0 = not set): one record fills a store;
\* two records fill a store; two entries fill the index; the index has room
\* left for half an entry after two
Configs ==
    { [MaxStoreBytes |-> 11, MaxIndexBytes |-> 0,  InitialOffset |-> 0],
      [MaxStoreBytes |-> 22, MaxIndexBytes |-> 0,  InitialOffset |-> 0],
      [MaxStoreBytes |-> 0,  MaxIndexBytes |-> 24, InitialOffset |-> 1],
      [MaxStoreBytes |-> 0,  MaxIndexBytes |-> 30, InitialOffset |-> 0] }

Args == 0..MaxArg

Threads == {1, 2}

(***************************************************************************)
(* State.                                                                  *)
(***************************************************************************)
VARIABLES
    fs,        \* the file system: [dir, store, index]
    heap,      \* the segment objects of the process, by identity
    lg,        \* the Log: [state, Config, segments, activeSegment]
    rd,        \* the stream made by Log.Reader and what was read from it
    mu,        \* Log.mu: 0 when free, else the thread holding it
    pc,        \* per thread: the log operation it is in, or "idle"
    ret,       \* what the last completed operation returned
    hist,      \* the appends of this Log that returned a nil error, in order
    obs,       \* bookkeeping for the properties (never read by an operation)
    cnt,       \* how many Append, Truncate and NewLog calls were made
    sto,       \* a store used on its own: [size, buf, werr, closed]
    file,      \* the bytes of the file of sto
    sret,      \* what the last operation on sto returned
    shist      \* the Appends on file that returned a nil error, in order

logVars == <<fs, heap, lg, rd, mu, pc, ret, hist, obs, cnt>>

storeVars == <<sto, file, sret, shist>>

vars == <<logVars, storeVars>>

NoSegment == 0

NoReader == [open |-> FALSE, readers |-> <<>>, out |-> <<>>, err |-> "nil"]

Idle == [op |-> "idle", arg |-> 0]

Result(op, arg, off, value, err) ==
    [op |-> op, arg |-> arg, off |-> off, value |-> value, err |-> err]

(***************************************************************************)
(* Log.  A world is [lg, heap, d]: the Log, the segment objects and the    *)
(* file system, as the operations below read and change them.              *)
(***************************************************************************)
World == [lg |-> lg, heap |-> heap, d |-> fs]

\* NewLog's defaults for the fields of Config that are not set
NewLogConfig(c) ==
    [c EXCEPT !.MaxStoreBytes = IF @ = 0 THEN 1024 ELSE @,
              !.MaxIndexBytes = IF @ = 0 THEN 1024 ELSE @]

LogNewSegment1(w, r) ==
    IF r.err THEN [w |-> w, err |-> TRUE]
    ELSE [w |-> [lg |-> [w.lg EXCEPT !.segments = Append(@, Len(w.heap) + 1),
                                     !.activeSegment = Len(w.heap) + 1],
                 heap |-> Append(w.heap, r.seg),
                 d |-> r.d],
          err |-> FALSE]

\* Log.newSegment(offset): the new segment joins the list and becomes active
LogNewSegment(w, offset) ==
    LogNewSegment1(w, newSegment(w.d, offset, w.lg.Config))

\* the names in the directory, as base offsets, sorted ascending: one entry
\* per file (sort.Slice over the stems ioutil.ReadDir yields)
RECURSIVE SortedStems(_)
SortedStems(files) ==
    IF files = {} THEN <<>>
    ELSE LET m == CHOOSE x \in files : \A y \in files : x[1] <= y[1]
         IN  <<m[1]>> \o SortedStems(files \ {m})

BaseOffsets(d) ==
    SortedStems({<<b, "store">> : b \in DOMAIN d.store}
                \cup {<<b, "index">> : b \in DOMAIN d.index})

\* the step of setup's loop over baseOffsets
SetupStride == 2

\* setup's loop: for i := 0; i < len(baseOffsets); i += 2 (i is 1-based here)
RECURSIVE SetupSegments(_, _, _)
SetupSegments1(r, baseOffsets, i) ==
    IF r.err THEN r ELSE SetupSegments(r.w, baseOffsets, i + SetupStride)

SetupSegments(w, baseOffsets, i) ==
    IF i > Len(baseOffsets) THEN [w |-> w, err |-> FALSE]
    ELSE SetupSegments1(LogNewSegment(w, baseOffsets[i]), baseOffsets, i)

LogSetup1(r) ==
    IF r.err THEN r
    ELSE IF r.w.lg.segments = <<>>
    THEN LogNewSegment(r.w, r.w.lg.Config.InitialOffset)
    ELSE r

\* Log.setup
LogSetup(w) ==
    IF ~w.d.dir THEN [w |-> w, err |-> TRUE]
    ELSE LogSetup1(SetupSegments(w, BaseOffsets(w.d), 1))

\* NewLog(dir, c): a new Log object in a new process image (no segment
\* object of an earlier Log is carried over)
NewLogWorld(d, c) ==
    LogSetup([lg |-> [state |-> "open", Config |-> NewLogConfig(c),
                      segments |-> <<>>, activeSegment |-> NoSegment],
              heap |-> <<>>, d |-> d])

\* rolling to a segment that starts one offset too far
RollOffsetSkip(offset) == offset + 2

\* the offset of the segment Log.Append opens after the one at offset
RollOffset(offset) == offset + 1

LogAppend2(offset, act, r) ==
    [w |-> r.w, offset |-> offset, err |-> IF r.err THEN "io" ELSE "nil",
     seg |-> act]

LogAppend1(w, act, a) ==
    IF a.err # "nil"
    THEN [w |-> [w EXCEPT !.heap[act] = a.seg, !.d = a.d],
          offset |-> 0, err |-> a.err, seg |-> act]
    ELSE IF IsMaxed(a.seg, w.lg.Config)
    THEN LogAppend2(a.offset, act,
             LogNewSegment([w EXCEPT !.heap[act] = a.seg, !.d = a.d],
                           RollOffset(a.offset)))
    ELSE [w |-> [w EXCEPT !.heap[act] = a.seg, !.d = a.d],
          offset |-> a.offset, err |-> "nil", seg |-> act]

\* Log.Append(record), under lg.mu: seg is the segment that was active
LogAppend(w, value) ==
    LogAppend1(w, w.lg.activeSegment,
               SegmentAppend(w.heap[w.lg.activeSegment], w.d, value))

\* the segment Log.Read picks for offset: the last one in the list that
\* covers it, or NoSegment
RECURSIVE LogFindSegment(_, _, _, _)
LogFindSegment(w, offset, i, s) ==
    IF i > Len(w.lg.segments) THEN s
    ELSE LogFindSegment(w, offset, i + 1,
             IF /\ w.heap[w.lg.segments[i]].baseOffset <= offset
                /\ offset < w.heap[w.lg.segments[i]].nextOffset
             THEN w.lg.segments[i] ELSE s)

LogRead2(w, s, r) ==
    [w |-> [w EXCEPT !.heap[s] = r.seg, !.d = r.d],
     value |-> r.value, err |-> r.err]

LogRead1(w, offset, s) ==
    IF s = NoSegment \/ w.heap[s].nextOffset <= offset
    THEN [w |-> w, value |-> <<>>, err |-> "OutOfRange"]
    ELSE LogRead2(w, s, SegmentRead(w.heap[s], w.d, offset))

\* Log.Read(offset), under lg.mu
LogRead(w, offset) ==
    LogRead1(w, offset, LogFindSegment(w, offset, 1, NoSegment))

\* Log.LowestOffset, under lg.mu; indexing an empty list panics
LogLowestOffset(w) ==
    IF w.lg.segments = <<>> THEN [off |-> 0, err |-> "panic"]
    ELSE [off |-> w.heap[w.lg.segments[1]].baseOffset, err |-> "nil"]

\* HighestOffset without the step back from nextOffset to the last record
HighestOfNext(offset) == offset

\* what Log.HighestOffset makes of the last segment's nextOffset
HighestOf(offset) == IF offset = 0 THEN 0 ELSE offset - 1

\* Log.HighestOffset, under lg.mu
LogHighestOffset(w) ==
    IF w.lg.segments = <<>> THEN [off |-> 0, err |-> "panic"]
    ELSE [off |-> HighestOf(w.heap[w.lg.segments[Len(w.lg.segments)]].nextOffset),
          err |-> "nil"]

\* a segment ending at lowest + 2, which holds offset lowest + 1, removed
TruncateRemovesAbove(nextOffset, lowest) == nextOffset <= lowest + 2

\* a segment ending right at lowest + 1 kept
TruncateRemovesBelow(nextOffset, lowest) == nextOffset < lowest + 1

\* whether Log.Truncate(lowest) removes a segment with this nextOffset
TruncateRemoves(nextOffset, lowest) == nextOffset <= lowest + 1

\* Log.Truncate's loop from segment i on; kept are the segments retained so far
RECURSIVE TruncateFrom(_, _, _, _)
TruncateFrom1(w, lowest, i, kept, id, r) ==
    IF r.err
    THEN [w |-> [w EXCEPT !.heap[id] = r.seg, !.d = r.d], err |-> TRUE]
    ELSE TruncateFrom([w EXCEPT !.heap[id] = r.seg, !.d = r.d],
                      lowest, i + 1, kept)

TruncateFrom(w, lowest, i, kept) ==
    IF i > Len(w.lg.segments)
    THEN [w |-> [w EXCEPT !.lg.segments = kept], err |-> FALSE]
    ELSE IF TruncateRemoves(w.heap[w.lg.segments[i]].nextOffset, lowest)
    THEN TruncateFrom1(w, lowest, i, kept, w.lg.segments[i],
                       SegmentRemove(w.heap[w.lg.segments[i]], w.d))
    ELSE TruncateFrom(w, lowest, i + 1, Append(kept, w.lg.segments[i]))

\* Log.Truncate(lowest), under lg.mu
LogTruncate(w, lowest) == TruncateFrom(w, lowest, 1, <<>>)

\* Log.Close's loop from segment i on
RECURSIVE CloseFrom(_, _)
CloseFrom1(w, i, id, r) ==
    IF r.err THEN [w |-> [w EXCEPT !.heap[id] = r.seg, !.d = r.d], err |-> TRUE]
    ELSE CloseFrom([w EXCEPT !.heap[id] = r.seg, !.d = r.d], i + 1)

CloseFrom(w, i) ==
    IF i > Len(w.lg.segments) THEN [w |-> w, err |-> FALSE]
    ELSE CloseFrom1(w, i, w.lg.segments[i],
                    SegmentClose(w.heap[w.lg.segments[i]], w.d))

\* Log.Close, under lg.mu
LogClose(w) == CloseFrom(w, 1)

\* os.RemoveAll(lg.Dir)
RemoveAll(d) == [dir |-> FALSE, store |-> NoFiles, index |-> NoFiles]

\* Log.Reader, under lg.mu: one originReader{store, 0} per segment of the list
LogReader(w) == [i \in 1..Len(w.lg.segments) |->
                    [seg |-> w.lg.segments[i], offset |-> 0]]

\* io.MultiReader.Read(p) with len(p) = n over originReaders: the first
\* reader is asked (originReader.Read: store.ReadAt at its offset, which then
\* advances); a reader at io.EOF is dropped, and the next one asked when it
\* gave no bytes
RECURSIVE MultiRead(_, _, _)
MultiRead2(w, rest, n, r) ==
    IF Len(r.bytes) > 0 \/ r.err # "EOF"
    THEN [w |-> w, readers |-> rest, bytes |-> r.bytes,
          err |-> IF r.err = "EOF" /\ rest # <<>> THEN "nil" ELSE r.err]
    ELSE MultiRead(w, rest, n)

MultiRead1(w, readers, n, r) ==
    MultiRead2([w EXCEPT !.heap[readers[1].seg].store = r.st,
                         !.d = PutStoreFile(@, w.heap[readers[1].seg].baseOffset,
                                            r.st, r.f)],
               IF r.err = "EOF" THEN Tail(readers)
               ELSE <<[readers[1] EXCEPT !.offset = @ + Len(r.bytes)]>>
                    \o Tail(readers),
               n, r)

MultiRead(w, readers, n) ==
    IF readers = <<>>
    THEN [w |-> w, readers |-> readers, bytes |-> <<>>, err |-> "EOF"]
    ELSE MultiRead1(w, readers, n,
             StoreReadAt(w.heap[readers[1].seg].store,
                         StoreFile(w.d, w.heap[readers[1].seg].baseOffset),
                         readers[1].offset, n))

(***************************************************************************)
(* What the properties remember about a run.                               *)
(***************************************************************************)
NoSnap == [taken |-> FALSE]

NoNext == [seen |-> FALSE]

ReadResult(r) == [value |-> r.value, err |-> r.err]

\* what LowestOffset, HighestOffset and Read of each offset return, and the
\* offsets at which the segments of the list start and end
Snapshot(w) ==
    [taken |-> TRUE,
     lo    |-> LogLowestOffset(w),
     hi    |-> LogHighestOffset(w),
     reads |-> [o \in Args |-> ReadResult(LogRead(w, o))],
     segs  |-> [i \in 1..Len(w.lg.segments) |->
                  [baseOffset |-> w.heap[w.lg.segments[i]].baseOffset,
                   nextOffset |-> w.heap[w.lg.segments[i]].nextOffset]]]

\* obs at the start of a Log: fresh = the directory held no file; maxTrunc =
\* the largest argument of a Truncate so far; snap = the snapshot at the last
\* Close; live = the Log was opened after that Close and nothing was appended
\* or truncated since; next = the first append after such an opening; top =
\* the highest offset an append on the directory has returned, -1 for none;
\* failed = an Append of this Log returned an error
NewObs(fresh, snap, live, top) ==
    [fresh |-> fresh, maxTrunc |-> -1, snap |-> snap, live |-> live,
     next |-> NoNext, top |-> top, failed |-> FALSE]

Dead(l) == [state |-> "dead", Config |-> l.Config, segments |-> <<>>,
            activeSegment |-> NoSegment]

(***************************************************************************)
(* The operations as steps.  Each Do... is the whole operation as it runs  *)
(* between lg.mu.Lock() and the deferred Unlock().  rd holds the stream of *)
(* the last Log.Reader call until the caller's next log operation.         *)
(***************************************************************************)
InitWith(r) ==
    /\ fs = r.w.d
    /\ heap = r.w.heap
    /\ lg = r.w.lg
    /\ rd = NoReader
    /\ mu = 0
    /\ pc = [t \in Threads |-> Idle]
    /\ ret = Result("NewLog", 0, 0, <<>>, "nil")
    /\ hist = <<>>
    /\ obs = NewObs(TRUE, NoSnap, FALSE, -1)
    /\ cnt = [app |-> 0, trunc |-> 0, open |-> 0, ops |-> 0]

\* what an operation on sto returned (n, pos, bytes, err), with the store's
\* size, the file's length, the buffered bytes and whether the file was
\* closed before it; seq counts the operations, gen the stores made on file
StoreRet(op, n, pos, bytes, err) ==
    [op |-> op, n |-> n, pos |-> pos, bytes |-> bytes, err |-> err,
     size0 |-> sto.size, flen0 |-> Len(file), buf0 |-> Len(sto.buf),
     closed0 |-> sto.closed, seq |-> sret.seq + 1, gen |-> sret.gen]

NoStoreRet ==
    [op |-> "newStore", n |-> 0, pos |-> 0, bytes |-> <<>>, err |-> FALSE,
     size0 |-> 0, flen0 |-> 0, buf0 |-> 0, closed0 |-> FALSE, seq |-> 0,
     gen |-> 0]

\* no store is used on its own
NoStore ==
    /\ sto = newStore(<<>>)
    /\ file = <<>>
    /\ sret = NoStoreRet
    /\ shist = <<>>

Init ==
    /\ \E c \in Configs :
          InitWith(NewLogWorld([dir |-> TRUE, store |-> NoFiles, index |-> NoFiles], c))
    /\ NoStore

NewLogStep(r) ==
    /\ cnt.open < MaxReopens
    /\ fs' = r.w.d
    /\ heap' = r.w.heap
    /\ lg' = IF r.err THEN [r.w.lg EXCEPT !.state = "failed"] ELSE r.w.lg
    /\ rd' = NoReader
    /\ ret' = Result("NewLog", 0, 0, <<>>, IF r.err THEN "io" ELSE "nil")
    /\ hist' = <<>>
    /\ obs' = NewObs(DOMAIN fs.store = {} /\ DOMAIN fs.index = {}, obs.snap,
                     obs.snap.taken /\ lg.state = "closed" /\ ~r.err, obs.top)
    /\ cnt' = [cnt EXCEPT !.open = @ + 1]

DoNewLog == NewLogStep(NewLogWorld(fs, lg.Config))

\* what Log.Append changes; a stream Log.Reader returned is no part of it
AppendEffect(value, r) ==
    /\ cnt' = [cnt EXCEPT !.app = @ + 1]
    /\ ret' = Result("Append", 0, r.offset, value, r.err)
    /\ IF r.err = "fault"
       THEN /\ lg' = Dead(lg)
            /\ heap' = <<>>
            /\ fs' = fs
            /\ hist' = <<>>
            /\ obs' = [obs EXCEPT !.live = FALSE]
       ELSE /\ lg' = r.w.lg
            /\ heap' = r.w.heap
            /\ fs' = r.w.d
            /\ hist' = IF r.err = "nil"
                       THEN Append(hist, [off |-> r.offset, value |-> value,
                                          seg |-> r.seg])
                       ELSE hist
            /\ obs' = [obs EXCEPT
                         !.live = FALSE,
                         !.failed = @ \/ r.err # "nil",
                         !.top = IF r.err = "nil" THEN Max(@, r.offset) ELSE @,
                         !.next = IF obs.live /\ r.err = "nil"
                                  THEN [seen |-> TRUE, off |-> r.offset,
                                        snap |-> obs.snap]
                                  ELSE @]

AppendStep(value, r) == AppendEffect(value, r) /\ rd' = NoReader

DoAppend(value) == AppendStep(value, LogAppend(World, value))

ReadStep(offset, r) ==
    /\ lg' = r.w.lg
    /\ heap' = r.w.heap
    /\ fs' = r.w.d
    /\ ret' = Result("Read", offset, offset, r.value, r.err)
    /\ rd' = NoReader
    /\ UNCHANGED <<hist, obs, cnt>>

DoRead(offset) == ReadStep(offset, LogRead(World, offset))

TruncateStep(lowest, r) ==
    /\ cnt.trunc < MaxTruncates
    /\ cnt' = [cnt EXCEPT !.trunc = @ + 1]
    /\ lg' = r.w.lg
    /\ heap' = r.w.heap
    /\ fs' = r.w.d
    /\ ret' = Result("Truncate", lowest, 0, <<>>, IF r.err THEN "io" ELSE "nil")
    /\ obs' = [obs EXCEPT !.maxTrunc = Max(@, lowest), !.live = FALSE]
    /\ rd' = NoReader
    /\ UNCHANGED hist

DoTruncate(lowest) == TruncateStep(lowest, LogTruncate(World, lowest))

CloseStep(r) ==
    /\ lg' = [r.w.lg EXCEPT !.state = "closed"]
    /\ heap' = r.w.heap
    /\ fs' = r.w.d
    /\ ret' = Result("Close", 0, 0, <<>>, IF r.err THEN "io" ELSE "nil")
    /\ obs' = [obs EXCEPT !.snap = IF lg.state = "open" THEN Snapshot(World)
                                   ELSE @,
                          !.live = FALSE]
    /\ rd' = NoReader
    /\ UNCHANGED <<hist, cnt>>

DoClose == CloseStep(LogClose(World))

LowestOffsetStep(r) ==
    /\ ret' = Result("LowestOffset", 0, r.off, <<>>, r.err)
    /\ rd' = NoReader
    /\ UNCHANGED <<fs, heap, lg, hist, obs, cnt>>

DoLowestOffset == LowestOffsetStep(LogLowestOffset(World))

HighestOffsetStep(r) ==
    /\ ret' = Result("HighestOffset", 0, r.off, <<>>, r.err)
    /\ rd' = NoReader
    /\ UNCHANGED <<fs, heap, lg, hist, obs, cnt>>

DoHighestOffset == HighestOffsetStep(LogHighestOffset(World))

DoReader ==
    /\ rd' = [NoReader EXCEPT !.open = TRUE, !.readers = LogReader(World)]
    /\ ret' = Result("Reader", 0, 0, <<>>, "nil")
    /\ UNCHANGED <<fs, heap, lg, hist, obs, cnt>>

\* whether a stream made by Log.Reader has not been read to its end
Streaming == rd.open /\ rd.err = "nil"

StreamReadStep(r) ==
    /\ Streaming
    /\ lg.state # "dead"
    /\ rd' = [rd EXCEPT !.readers = r.readers, !.out = @ \o r.bytes,
                        !.err = r.err]
    /\ heap' = r.w.heap
    /\ fs' = r.w.d
    /\ ret' = Result("StreamRead", 0, 0, <<>>, r.err)
    /\ UNCHANGED <<lg, mu, pc, hist, obs, cnt, storeVars>>

\* one Read(p), len(p) = ChunkLen, of the stream Log.Reader returned, by a
\* caller that reads until it gets an error (ioutil.ReadAll); lg.mu is not held
StreamRead == StreamReadStep(MultiRead(World, rd.readers, ChunkLen))

\* the first half of Log.Remove: lg.Close(), which locks and unlocks lg.mu;
\* Remove returns when Close fails
RemoveCloseStep(c) ==
    /\ lg' = [c.w.lg EXCEPT !.state = "closed"]
    /\ heap' = c.w.heap
    /\ fs' = c.w.d
    /\ ret' = Result("Remove", 0, 0, <<>>, IF c.err THEN "io" ELSE "nil")
    /\ obs' = [obs EXCEPT !.live = FALSE]
    /\ rd' = NoReader
    /\ UNCHANGED <<hist, cnt>>

\* the second half of Log.Remove: os.RemoveAll(lg.Dir), lg.mu not held
DoRemoveAll ==
    /\ fs' = RemoveAll(fs)
    /\ ret' = Result("Remove", 0, 0, <<>>, "nil")
    /\ rd' = NoReader
    /\ obs' = [obs EXCEPT !.snap = NoSnap, !.live = FALSE, !.top = -1]
    /\ UNCHANGED <<heap, lg, hist, cnt>>

RemoveStep(c) ==
    /\ lg' = [c.w.lg EXCEPT !.state = "closed"]
    /\ heap' = c.w.heap
    /\ fs' = IF c.err THEN c.w.d ELSE RemoveAll(c.w.d)
    /\ ret' = Result("Remove", 0, 0, <<>>, IF c.err THEN "io" ELSE "nil")
    /\ obs' = [obs EXCEPT !.snap = NoSnap, !.live = FALSE, 
                          !.top = IF c.err THEN @ ELSE -1]
    /\ rd' = NoReader
    /\ UNCHANGED <<hist, cnt>>

\* Log.Remove as one step of a single caller: Close, then os.RemoveAll
DoRemove == RemoveStep(LogClose(World))

ResetStep2(c, r) ==
    /\ lg' = IF r.err THEN [r.w.lg EXCEPT !.state = "closed"] ELSE r.w.lg
    /\ heap' = r.w.heap
    /\ fs' = r.w.d
    /\ ret' = Result("Reset", 0, 0, <<>>, IF r.err THEN "io" ELSE "nil")
    /\ obs' = [obs EXCEPT !.snap = NoSnap, !.live = FALSE, !.top = -1]
    /\ rd' = NoReader
    /\ UNCHANGED <<hist, cnt>>

ResetStep1(c) ==
    IF c.err THEN RemoveStep(c)
    ELSE ResetStep2(c, LogSetup([c.w EXCEPT !.d = RemoveAll(@)]))

\* Log.Reset as one step of a single caller: Remove, then setup on the same
\* Log object (its segment list is not cleared)
DoReset == ResetStep1(LogClose(World))

(***************************************************************************)
(* Spec: one caller at a time.  An operation that locks lg.mu runs from    *)
(* Lock to Unlock as one step; a stream is read to its end before the next *)
(* operation; a Log is not used after Close, Remove or Reset, except to    *)
(* ask for its lowest and highest offset and to open the directory again   *)
(* with NewLog.                                                            *)
(***************************************************************************)
Free == mu = 0 /\ (\A t \in Threads : pc[t] = Idle) /\ ~Streaming

Open == lg.state = "open"

CallNewLog ==
    Free /\ lg.state \in {"closed", "dead"} /\ DoNewLog /\ UNCHANGED <<mu, pc, storeVars>>

CallAppend ==
    \E v \in Values :
        Free /\ Open /\ cnt.app < MaxAppends /\ DoAppend(v) /\ UNCHANGED <<mu, pc, storeVars>>

CallRead == \E o \in Args : Free /\ Open /\ DoRead(o) /\ UNCHANGED <<mu, pc, storeVars>>

CallTruncate == \E t \in Args : Free /\ Open /\ DoTruncate(t) /\ UNCHANGED <<mu, pc, storeVars>>

CallClose == Free /\ Open /\ DoClose /\ UNCHANGED <<mu, pc, storeVars>>

CallRemove == Free /\ Open /\ DoRemove /\ UNCHANGED <<mu, pc, storeVars>>

CallReset == Free /\ Open /\ DoReset /\ UNCHANGED <<mu, pc, storeVars>>

CallLowestOffset ==
    Free /\ lg.state \in {"open", "closed"} /\ DoLowestOffset /\ UNCHANGED <<mu, pc, storeVars>>

CallHighestOffset ==
    Free /\ lg.state \in {"open", "closed"} /\ DoHighestOffset /\ UNCHANGED <<mu, pc, storeVars>>

CallReader == Free /\ Open /\ DoReader /\ UNCHANGED <<mu, pc, storeVars>>

Next ==
    \/ CallNewLog
    \/ CallAppend
    \/ CallRead
    \/ CallTruncate
    \/ CallClose
    \/ CallRemove
    \/ CallReset
    \/ CallLowestOffset
    \/ CallHighestOffset
    \/ CallReader
    \/ StreamRead

Spec == Init /\ [][Next]_vars

(***************************************************************************)
(* Properties.                                                             *)
(***************************************************************************)
(* SpecRoll: a Log in an empty directory whose Config lets one framed      *)
(* record fill a segment; one caller appends, reads and asks for the       *)
(* offsets.                                                                *)
(***************************************************************************)
RollConfigs ==
    {[MaxStoreBytes |-> 11, MaxIndexBytes |-> 0, InitialOffset |-> 0],
     [MaxStoreBytes |-> 1, MaxIndexBytes |-> 0, InitialOffset |-> 1]}

InitRoll ==
    /\ \E c \in RollConfigs :
          InitWith(NewLogWorld([dir |-> TRUE, store |-> NoFiles, index |-> NoFiles], c))
    /\ NoStore

RollAppend ==
    \E v \in Values :
        Free /\ Open /\ cnt.app < MaxRollAppends /\ DoAppend(v) /\ UNCHANGED <<mu, pc, storeVars>>

NextRoll ==
    \/ RollAppend
    \/ CallRead
    \/ CallLowestOffset
    \/ CallHighestOffset

SpecRoll == InitRoll /\ [][NextRoll]_vars

(***************************************************************************)
(* SpecLock: two threads call the operations of one Log.  An operation     *)
(* starts by locking lg.mu and runs its body, to the Unlock, as the next   *)
(* step of its thread; Remove unlocks after Close and deletes the          *)
(* directory in a further step.  Nothing stops a thread from calling an    *)
(* operation of a Log that was closed or removed.                          *)
(***************************************************************************)
LockedOps ==
    {"Append", "Read", "Truncate", "Close", "Remove", "LowestOffset",
     "HighestOffset", "Reader"}

Alive == lg.state # "dead"

\* lg.mu.Lock() at the start of operation op, called by thread t
Lock ==
    \E t \in Threads, op \in LockedOps :
        /\ Alive /\ mu = 0 /\ pc[t] = Idle
        /\ cnt.ops < MaxLockOps
        /\ op = "Append" => cnt.app < MaxAppends
        /\ op = "Truncate" => cnt.trunc < MaxTruncates
        /\ mu' = t
        /\ pc' = [pc EXCEPT ![t] = [op |-> op, arg |-> 0]]
        /\ cnt' = [cnt EXCEPT !.ops = @ + 1]
        /\ UNCHANGED <<fs, heap, lg, rd, ret, hist, obs, storeVars>>

Held(t, op) == Alive /\ mu = t /\ pc[t].op = op

\* the deferred lg.mu.Unlock() and the return
Unlock(t) == mu' = 0 /\ pc' = [pc EXCEPT ![t] = Idle] /\ UNCHANGED storeVars

RunAppend ==
    \E t \in Threads, v \in Values : Held(t, "Append") /\ DoAppend(v) /\ Unlock(t)

RunRead ==
    \E t \in Threads, o \in Args : Held(t, "Read") /\ DoRead(o) /\ Unlock(t)

RunTruncate ==
    \E t \in Threads, l \in Args : Held(t, "Truncate") /\ DoTruncate(l) /\ Unlock(t)

RunClose == \E t \in Threads : Held(t, "Close") /\ DoClose /\ Unlock(t)

RunLowestOffset ==
    \E t \in Threads : Held(t, "LowestOffset") /\ DoLowestOffset /\ Unlock(t)

RunHighestOffset ==
    \E t \in Threads : Held(t, "HighestOffset") /\ DoHighestOffset /\ Unlock(t)

RunReader == \E t \in Threads : Held(t, "Reader") /\ DoReader /\ Unlock(t)

RunRemoveCloseStep(t, c) ==
    /\ RemoveCloseStep(c)
    /\ mu' = 0
    /\ pc' = [pc EXCEPT ![t] = IF c.err THEN Idle
                               ELSE [op |-> "RemoveAll", arg |-> 0]]
    /\ UNCHANGED storeVars

\* Remove's call of lg.Close(): the lock is taken and released inside it
RunRemoveClose ==
    \E t \in Threads : Held(t, "Remove") /\ RunRemoveCloseStep(t, LogClose(World))

\* Remove's os.RemoveAll(lg.Dir), after Close has released lg.mu
RunRemoveAll ==
    \E t \in Threads :
        /\ Alive /\ pc[t].op = "RemoveAll"
        /\ DoRemoveAll
        /\ pc' = [pc EXCEPT ![t] = Idle]
        /\ UNCHANGED <<mu, storeVars>>

NextLock ==
    \/ Lock
    \/ RunAppend
    \/ RunRead
    \/ RunTruncate
    \/ RunClose
    \/ RunLowestOffset
    \/ RunHighestOffset
    \/ RunReader
    \/ RunRemoveClose
    \/ RunRemoveAll

SpecLock == Init /\ [][NextLock]_vars

(***************************************************************************)
(* SpecStore: one store over a file that starts empty.  One caller         *)
(* appends, reads and closes; a new store is made over the same file once  *)
(* the buffer of the old one holds nothing.  The code does not stop a      *)
(* caller from using a store whose file was closed: its writes then fail   *)
(* when the buffer has to be written out.                                  *)
(***************************************************************************)
\* the payloads appended: the last one is larger than the write buffer
StoreValues == {<<1>>, <<2, 3, 4>>, [i \in 1..(2 * bufSize) |-> 5]}

\* the positions read: those the appends returned, and 0
StorePositions == {0} \cup {shist[i].pos : i \in 1..Len(shist)}

InitStore ==
    /\ InitWith(NewLogWorld([dir |-> TRUE, store |-> NoFiles, index |-> NoFiles],
                            [MaxStoreBytes |-> 0, MaxIndexBytes |-> 0,
                             InitialOffset |-> 0]))
    /\ NoStore

StoreOpsLeft == sret.seq < MaxStoreOps

StoreAppendStep(b, r) ==
    /\ sto' = r.st
    /\ file' = r.f
    /\ sret' = StoreRet("Append", r.n, r.pos, b, r.err)
    /\ shist' = IF r.err THEN shist
                ELSE Append(shist, [b |-> b, n |-> r.n, pos |-> r.pos,
                                    open |-> ~sto.closed, gen |-> sret.gen])

StoreDoAppend ==
    \E b \in StoreValues :
        /\ StoreOpsLeft
        /\ StoreAppendStep(b, StoreAppend(sto, file, b))
        /\ UNCHANGED logVars

StoreReadStep(pos, r) ==
    /\ sto' = r.st
    /\ file' = r.f
    /\ sret' = StoreRet("Read", 0, pos, r.bytes, r.err)
    /\ UNCHANGED shist

StoreDoRead ==
    \E pos \in StorePositions :
        /\ StoreOpsLeft
        /\ StoreReadStep(pos, StoreRead(sto, file, pos))
        /\ UNCHANGED logVars

StoreReadAtStep(off, r) ==
    /\ sto' = r.st
    /\ file' = r.f
    /\ sret' = StoreRet("ReadAt", Len(r.bytes), off, r.bytes, r.err # "nil")
    /\ UNCHANGED shist

\* ReadAt(p, off) with len(p) = lenWidth, as the tests call it
StoreDoReadAt ==
    \E off \in StorePositions :
        /\ StoreOpsLeft
        /\ StoreReadAtStep(off, StoreReadAt(sto, file, off, lenWidth))
        /\ UNCHANGED logVars

StoreCloseStep(r) ==
    /\ sto' = r.st
    /\ file' = r.f
    /\ sret' = StoreRet("Close", 0, 0, <<>>, r.err)
    /\ UNCHANGED shist

StoreDoClose ==
    /\ StoreOpsLeft
    /\ StoreCloseStep(StoreClose(sto, file))
    /\ UNCHANGED logVars

\* newStore on the file again (opened anew when it was closed), the store
\* used so far being dropped with nothing in its buffer
StoreDoReopen ==
    /\ StoreOpsLeft
    /\ sto.buf = <<>>
    /\ sto' = newStore(file)
    /\ sret' = [StoreRet("newStore", 0, 0, <<>>, FALSE) EXCEPT !.gen = @ + 1]
    /\ UNCHANGED <<file, shist, logVars>>

NextStore ==
    \/ StoreDoAppend
    \/ StoreDoRead
    \/ StoreDoReadAt
    \/ StoreDoClose
    \/ StoreDoReopen

SpecStore == InitStore /\ [][NextStore]_vars

(***************************************************************************)
(* SpecStream: a stream Log.Reader returned is read chunk by chunk by one  *)
(* thread while another calls Log.Append.  Reader has released lg.mu, so   *)
(* an Append runs between two reads of the stream; store.ReadAt and        *)
(* store.Append each hold the store's mutex for their whole body.          *)
(***************************************************************************)
\* Log.Append by the other thread; the stream stays as it is
StreamAppend ==
    \E v \in Values :
        /\ mu = 0 /\ (\A t \in Threads : pc[t] = Idle)
        /\ Open
        /\ cnt.app < MaxAppends
        /\ AppendEffect(v, LogAppend(World, v))
        /\ rd' = rd
        /\ UNCHANGED <<mu, pc, storeVars>>

NextStream ==
    \/ CallReader
    \/ StreamRead
    \/ StreamAppend

SpecStream == Init /\ [][NextStream]_vars

(***************************************************************************)
(* SpecCrash: one caller appends, reads and closes, and the process can    *)
(* stop at any point without Close.  What the write buffers hold is lost;  *)
(* the files stay as they are: a store file holds what was flushed, an     *)
(* index file what was stored through its shared mapping, at the length    *)
(* newIndex grew it to.  NewLog then opens the directory again.            *)
(***************************************************************************)
\* the process stops: obs.snap keeps what the Log answered and the segments
\* it had at that point
DoCrash ==
    /\ lg' = Dead(lg)
    /\ heap' = <<>>
    /\ rd' = NoReader
    /\ ret' = Result("Crash", 0, 0, <<>>, "nil")
    /\ hist' = <<>>
    /\ obs' = [obs EXCEPT !.snap = Snapshot(World), !.live = FALSE]
    /\ UNCHANGED <<fs, cnt>>

Crash == Open /\ DoCrash /\ UNCHANGED <<mu, pc, storeVars>>

NextCrash ==
    \/ CallAppend
    \/ CallRead
    \/ CallClose
    \/ CallNewLog
    \/ Crash

SpecCrash == Init /\ [][NextCrash]_vars

(***************************************************************************)
\* C1: the offsets returned by the appends of one Log that returned a nil
\* error go up by exactly 1, and the first one on a Log created in an empty
\* directory is Config.Segment.InitialOffset.
C1_DenseOffsets ==
    /\ \A i \in 1..(Len(hist) - 1) : hist[i + 1].off = hist[i].off + 1
    /\ (obs.fresh /\ hist # <<>>) => hist[1].off = lg.Config.InitialOffset

\* the value handed to the latest append that returned the offset o
RECURSIVE AppendedAt(_, _)
AppendedAt(o, i) ==
    IF hist[i].off = o THEN hist[i].value ELSE AppendedAt(o, i - 1)

WasAppended(o) == \E i \in 1..Len(hist) : hist[i].off = o

\* C2: Read(o) of an offset o that an append of this Log returned, with every
\* Truncate(t) made on the Log so far having t < o, returns the record with
\* the value that was appended.
C2_ReadYourWrites ==
    (ret.op = "Read" /\ WasAppended(ret.arg) /\ obs.maxTrunc < ret.arg)
        => (ret.err = "nil" /\ ret.value = AppendedAt(ret.arg, Len(hist)))

\* C3: Read(x) of an offset x above every offset an append on the directory
\* has returned fails with the offset-out-of-range error and gives no record;
\* on a log that never got a record this is every x.
C3_ReadBeyondEnd ==
    (ret.op = "Read" /\ ret.arg > obs.top)
        => (ret.err = "OutOfRange" /\ ret.value = <<>>)

\* Read(x) was called on a log holding records, with x above the last one
C3_Witness ==
    /\ ret.op = "Read"
    /\ hist # <<>>
    /\ obs.top >= 1
    /\ ret.arg = obs.top + 1
    /\ ret.err = "OutOfRange"

\* C4: on a Log made in an empty directory whose appends returned the offsets
\* lo..hi and that was never truncated, LowestOffset returns lo and
\* HighestOffset returns hi, also when the last append rolled to a new, still
\* empty, active segment.
C4_LowestHighest ==
    (obs.fresh /\ obs.maxTrunc = -1 /\ hist # <<>>)
        => /\ ret.op = "LowestOffset"
                => (ret.err = "nil" /\ ret.off = hist[1].off)
           /\ ret.op = "HighestOffset"
                => (ret.err = "nil" /\ ret.off = hist[Len(hist)].off)

\* HighestOffset was asked right after an append that rolled: the active
\* segment is new and empty
C4_Witness ==
    /\ ret.op = "HighestOffset"
    /\ obs.fresh /\ obs.maxTrunc = -1
    /\ Len(hist) >= 2
    /\ Len(lg.segments) >= 2
    /\ lg.state = "open"
    /\ heap[lg.activeSegment].nextOffset = heap[lg.activeSegment].baseOffset
    /\ ret.off = hist[Len(hist)].off

\* the Log has just been opened on the directory of a Log that was closed, and
\* that Log could report its offsets
Reopened == ret.op = "NewLog" /\ obs.live /\ obs.snap.lo.err = "nil"

\* LowestOffset, HighestOffset and Read of every offset return after the
\* reopening what they returned before the Close
ReopenedSame ==
    /\ LogLowestOffset(World) = obs.snap.lo
    /\ LogHighestOffset(World) = obs.snap.hi
    /\ \A o \in Args : ReadResult(LogRead(World, o)) = obs.snap.reads[o]

\* the first append after a reopening was made, on a log that could report its
\* highest offset before the Close
AppendedAfterReopen == obs.next.seen /\ obs.next.snap.hi.err = "nil"

\* whether the closed log held no record and started at offset 0
WasEmptyAtZero(snap) == snap.segs[Len(snap.segs)].nextOffset = 0

\* C5 as stated: after Close and NewLog on the same directory with the same
\* Config, LowestOffset, HighestOffset and Read of every offset return what
\* they returned before, and the next append returns the previous highest
\* offset plus 1.
C5_ReopenAsStated ==
    /\ Reopened => ReopenedSame
    /\ AppendedAfterReopen => obs.next.off = obs.next.snap.hi.off + 1

\* C5, amended: the same, except that the next append returns 0 when the
\* closed log held no record and started at offset 0 (HighestOffset reports 0
\* for that log too).
C5_ReopenRestores ==
    /\ Reopened => ReopenedSame
    /\ AppendedAfterReopen =>
          obs.next.off = IF WasEmptyAtZero(obs.next.snap) THEN 0
                         ELSE obs.next.snap.hi.off + 1

\* a log holding records in more than one segment was closed and reopened,
\* and an append was made on the reopened log
C5_Witness ==
    /\ AppendedAfterReopen
    /\ Len(obs.next.snap.segs) >= 2
    /\ obs.next.snap.hi.off >= 1
    /\ obs.next.snap.reads[1].err = "nil"
    /\ obs.next.off = obs.next.snap.hi.off + 1

\* the segment that took the i-th successful append of this Log
SegOf(i) == heap[hist[i].seg]

\* C6: an append that leaves its segment maxed is followed by a new, empty
\* active segment whose baseOffset is the nextOffset of the segment that was
\* active; the next append is stored there, and the segment that was active
\* gets no further append.
C6_Roll ==
    /\ \A i \in 1..(Len(hist) - 1) :
          hist[i + 1].seg # hist[i].seg
            => /\ IsMaxed(SegOf(i), lg.Config)
               /\ SegOf(i + 1).baseOffset = SegOf(i).nextOffset
               /\ SegOf(i).nextOffset = hist[i].off + 1
               /\ hist[i + 1].off = SegOf(i + 1).baseOffset
               /\ \A j \in (i + 1)..Len(hist) : hist[j].seg # hist[i].seg
    /\ (ret.op = "Append" /\ ret.err = "nil" /\ hist # <<>>
          /\ IsMaxed(SegOf(Len(hist)), lg.Config))
            => /\ lg.activeSegment # hist[Len(hist)].seg
               /\ heap[lg.activeSegment].baseOffset = SegOf(Len(hist)).nextOffset
               /\ heap[lg.activeSegment].nextOffset = SegOf(Len(hist)).nextOffset

\* two records filled a segment and the third append went to the next one
C6_Witness ==
    /\ Len(hist) = 3
    /\ hist[1].seg = hist[2].seg
    /\ hist[3].seg # hist[2].seg
    /\ SegOf(3).baseOffset = SegOf(2).nextOffset

\* the i-th segment of the log's list
SegAt(i) == heap[lg.segments[i]]

KeptBy(segs, h, t) == SelectSeq(segs, LAMBDA id : h[id].nextOffset > t + 1)

\* the ids in the sequence segs
Ids(segs) == {segs[i] : i \in 1..Len(segs)}

RECURSIVE ParseFrames(_)
ParseFrames(bs) ==
    IF bs = <<>> THEN <<>>
    ELSE IF Len(bs) < lenWidth
              \/ Len(bs) < lenWidth + Uint(SubSeq(bs, 1, lenWidth))
    THEN << <<-1>> >>
    ELSE <<SubSeq(bs, lenWidth + 1, lenWidth + Uint(SubSeq(bs, 1, lenWidth)))>>
         \o ParseFrames(SubSeq(bs, lenWidth + Uint(SubSeq(bs, 1, lenWidth)) + 1,
                               Len(bs)))

\* what the store files of the segments i.. of the log hold with what their
\* write buffers hold, one after the other
RECURSIVE StoreContents(_)
StoreContents(i) ==
    IF i > Len(lg.segments) THEN <<>>
    ELSE StoreFile(fs, SegAt(i).baseOffset) \o SegAt(i).store.buf
         \o StoreContents(i + 1)

\* the records this Log appended, serialized, in the order of the appends
SerializedRecords ==
    [i \in 1..Len(hist) |->
        Marshal([value |-> hist[i].value, offset |-> hist[i].off])]

\* the stream Log.Reader returned has been read to its end
StreamEnded == rd.open /\ rd.err = "EOF"

\* the bytes read are the stores' contents, segment after segment
StreamIsStores ==
    /\ rd.out = StoreContents(1)
    /\ \A i \in 1..(Len(lg.segments) - 1) :
          SegAt(i).baseOffset < SegAt(i + 1).baseOffset

\* C9 as stated: the stream Log.Reader returned, read to its end, is the
\* concatenation of the segments' store contents in ascending base-offset
\* order, buffered frames included; on a Log made in an empty directory and
\* never truncated its frames are exactly the serialized records appended,
\* in offset order.
C9_ReaderStream ==
    StreamEnded
        => /\ StreamIsStores
           /\ (obs.fresh /\ obs.maxTrunc = -1)
                 => ParseFrames(rd.out) = SerializedRecords

\* C10 as stated: from the Lock of an operation of Append, Read, Truncate,
\* Close, Remove, LowestOffset, HighestOffset and Reader to its return, for
\* Remove through the deletion of the directory, no other thread takes a step
\* of a log operation.
C10_Exclusive ==
    [][\A t \in Threads :
         pc[t] # Idle => \A u \in Threads \ {t} : pc'[u] = pc[u]]_vars

\* C11: an Append whose store write failed returns an error: right after an
\* Append that returned an offset and a nil error, the store of the segment
\* that took it has no failed write.
C11_StoreErrorReturned ==
    (ret.op = "Append" /\ ret.err = "nil" /\ hist # <<>>)
        => ~SegOf(Len(hist)).store.werr

\* C12: the index of the active segment of an open log always has room for
\* another entry (a segment whose index filled up was rolled), and no Append
\* fails for lack of index space.
C12_IndexNeverFull ==
    /\ Open => IndexHasRoom(heap[lg.activeSegment].index)
    /\ ret.op = "Append" => ret.err # "EOF"

\* C13: Reset on a log that holds records returns no error and leaves one
\* segment in the list, empty, at Config.InitialOffset, which is the active
\* one; the next append returns InitialOffset.
C13_Reset ==
    (ret.op = "Reset" /\ hist # <<>> /\ obs.maxTrunc = -1)
        => /\ ret.err = "nil"
           /\ Len(lg.segments) = 1
           /\ lg.activeSegment = lg.segments[1]
           /\ SegAt(1).baseOffset = lg.Config.InitialOffset
           /\ SegAt(1).nextOffset = lg.Config.InitialOffset
           /\ \A v \in Values :
                 /\ LogAppend(World, v).err = "nil"
                 /\ LogAppend(World, v).offset = lg.Config.InitialOffset

\* C14: an open log always has a segment in its list, and its active
\* segment is the last one of the list.
C14_ActiveIsLast ==
    Open => /\ lg.segments # <<>>
            /\ lg.activeSegment = lg.segments[Len(lg.segments)]

\* the segments of the list that cover offset o
Covering(o) ==
    {i \in 1..Len(lg.segments) :
        SegAt(i).baseOffset <= o /\ o < SegAt(i).nextOffset}

\* the segments of the list follow each other without gap or overlap
Contiguous ==
    \A i \in 1..(Len(lg.segments) - 1) :
        /\ SegAt(i).baseOffset <= SegAt(i).nextOffset
        /\ SegAt(i).nextOffset = SegAt(i + 1).baseOffset

\* C15: the segments of an open log are in ascending baseOffset order, each
\* ending where the next one starts, and every offset that an append of this
\* Log returned and that lies above every Truncate argument is covered by
\* exactly one segment of the list.
C15_Contiguous ==
    Open => /\ Contiguous
            /\ \A o \in 0..(MaxArg + 1) :
                 (WasAppended(o) /\ obs.maxTrunc < o)
                    => Cardinality(Covering(o)) = 1

\* the framed lengths of the first i appends on the file, added up
RECURSIVE FramedLengths(_)
FramedLengths(i) ==
    IF i = 0 THEN 0 ELSE lenWidth + Len(shist[i].b) + FramedLengths(i - 1)

\* C16: a store.Append(b) that returns no error returns n = 8 + len(b) and
\* pos = the store's size before the call, and raises size by n; pos + n is
\* the sum of the framed lengths of everything appended so far.
C16_AppendResult ==
    (sret.op = "Append" /\ ~sret.err)
        => /\ sret.n = 8 + Len(sret.bytes)
           /\ sret.pos = sret.size0
           /\ sto.size = sret.size0 + sret.n
           /\ sret.pos + sret.n = FramedLengths(Len(shist))

\* the third append on a store returned
C16_Witness ==
    /\ sret.op = "Append" /\ ~sret.err
    /\ Len(shist) = 3
    /\ sret.gen = 0
    /\ sret.pos > 0

\* C17: on a store in use (its file not closed), Read(pos) for the pos an
\* Append(b) on such a store returned gives b: when the frame was still in
\* the write buffer, and on a store made anew over the file.
C17_ReadBack ==
    \A i \in 1..Len(shist) :
        (sret.op = "Read" /\ sret.pos = shist[i].pos /\ shist[i].open
           /\ ~sret.closed0)
            => (~sret.err /\ sret.bytes = shist[i].b)

\* a store made anew over the file read a frame of the store before it
C17_Witness ==
    /\ sret.op = "Read" /\ ~sret.err
    /\ sret.gen = 1
    /\ \E i \in 1..Len(shist) :
          /\ shist[i].pos = sret.pos /\ sret.pos > 0
          /\ shist[i].gen = 0
          /\ sret.bytes = shist[i].b

\* C18: a store.Close that returns no error leaves the file as long as the
\* store's size, and longer than before when bytes were in the buffer.
C18_CloseFlushes ==
    (sret.op = "Close" /\ ~sret.err)
        => /\ Len(file) = sto.size
           /\ sret.buf0 > 0 => Len(file) > sret.flen0

\* Close was called with appended bytes in the buffer
C18_Witness ==
    /\ sret.op = "Close" /\ ~sret.err
    /\ sret.buf0 > 0
    /\ Len(file) = sret.flen0 + sret.buf0

\* C19: a store.Append that returns an error leaves the store's size as it
\* was, and size is still the bytes in the file plus those in the buffer.
C19_FailedAppend ==
    (sret.op = "Append" /\ sret.err)
        => /\ sto.size = sret.size0
           /\ sto.size = Len(file) + Len(sto.buf)

\* C20: every segment of a log in use has nextOffset = baseOffset + the
\* number of entries of its index (index.size / 12), and index.size is a
\* multiple of 12.
C20_NextOffsetIsEntries ==
    lg.state \in {"open", "closed"}
        => \A i \in 1..Len(heap) :
              /\ heap[i].index.size % entWidth = 0
              /\ heap[i].nextOffset
                    = heap[i].baseOffset + heap[i].index.size \div entWidth

\* a segment holding two records was closed and opened again
C20_Witness ==
    /\ ret.op = "NewLog" /\ obs.live
    /\ \E i \in 1..Len(heap) :
          /\ heap[i].index.size = 2 * entWidth
          /\ heap[i].nextOffset = heap[i].baseOffset + 2

\* the payload of the frame of bs that starts at byte target, walking the
\* frames from byte p on; <<-1>> when no complete frame starts there
RECURSIVE FrameFrom(_, _, _)
FrameFrom(bs, p, target) ==
    IF p > target \/ Len(bs) < p + lenWidth
          \/ Len(bs) < p + lenWidth + Uint(SubSeq(bs, p + 1, p + lenWidth))
    THEN <<-1>>
    ELSE IF p = target
    THEN SubSeq(bs, p + lenWidth + 1,
                p + lenWidth + Uint(SubSeq(bs, p + 1, p + lenWidth)))
    ELSE FrameFrom(bs, p + lenWidth + Uint(SubSeq(bs, p + 1, p + lenWidth)),
                   target)

\* the store of the k-th segment of the list: its file, then its buffer
StoreBytes(k) == StoreFile(fs, SegAt(k).baseOffset) \o SegAt(k).store.buf

\* entry e, the i-th of the index of the k-th segment, names itself i and
\* points at a whole frame that holds a record with offset baseOffset + i
EntryOk(k, i, e) ==
    /\ ~e.err
    /\ e.out = i
    /\ FrameFrom(StoreBytes(k), 0, e.pos) # <<-1>>
    /\ Unmarshal(FrameFrom(StoreBytes(k), 0, e.pos)).offset
          = SegAt(k).baseOffset + i
    /\ Unmarshal(FrameFrom(StoreBytes(k), 0, e.pos)).value \in Values

\* C21: in every segment of an open log, the index entry at position i has
\* relOff = i and a pos at which a complete frame of the segment's store
\* (file and write buffer) starts, and that frame holds the record with
\* offset baseOffset + i.
C21_IndexEntries ==
    Open => \A k \in 1..Len(lg.segments) :
               \A i \in 0..((SegAt(k).index.size \div entWidth) - 1) :
                  EntryOk(k, i, IndexRead(SegAt(k).index, i))

\* a segment with two entries, the frame of the second still in the buffer
C21_Witness ==
    /\ Open
    /\ \E k \in 1..Len(lg.segments) :
          /\ SegAt(k).index.size = 2 * entWidth
          /\ SegAt(k).store.buf # <<>>
          /\ IndexRead(SegAt(k).index, 1).pos > 0

\* the pos of the i-th entry of the index file f
EntryPos(f, i) == Uint(FBytes(f, (i * entWidth) + offWidth, posWidth))

\* bs is whole frames, then at most the start of one more
RECURSIVE FramesThenTorn(_)
FramesThenTorn(bs) ==
    IF Len(bs) < lenWidth
          \/ Len(bs) < lenWidth + Uint(SubSeq(bs, 1, lenWidth))
    THEN TRUE
    ELSE /\ Unmarshal(SubSeq(bs, lenWidth + 1,
                             lenWidth + Uint(SubSeq(bs, 1, lenWidth)))).value
               \in Values
         /\ FramesThenTorn(SubSeq(bs, lenWidth + Uint(SubSeq(bs, 1, lenWidth)) + 1,
                                  Len(bs)))

\* C22: when the process has stopped without Close, every store file is
\* whole frames up to a torn last one, and every entry the segment had
\* written to its index points, in the store file, at a frame that is
\* wholly there.
C22_CrashConsistent ==
    ret.op = "Crash"
        => \A k \in 1..Len(obs.snap.segs) :
              /\ FramesThenTorn(StoreFile(fs, obs.snap.segs[k].baseOffset))
              /\ \A i \in 0..(obs.snap.segs[k].nextOffset
                               - obs.snap.segs[k].baseOffset - 1) :
                    FrameFrom(StoreFile(fs, obs.snap.segs[k].baseOffset), 0,
                              EntryPos(fs.index[obs.snap.segs[k].baseOffset], i))
                       # <<-1>>

\* C23: a Truncate(t) that returns no error removes exactly the segments
\* whose highest stored offset (nextOffset - 1, for a segment that holds a
\* record) is lower than t: such a segment with a highest offset equal to
\* or greater than t is still in the log afterwards.
C23_TruncateBelowLowest ==
    [][(cnt'.trunc = cnt.trunc + 1 /\ ret'.op = "Truncate" /\ ret'.err = "nil")
        => \A id \in Ids(lg.segments) :
              heap[id].nextOffset > heap[id].baseOffset
                 => ((id \in Ids(lg'.segments))
                        <=> (heap[id].nextOffset - 1 >= ret'.arg))]_vars

\* C24: Truncate(t) removes no record with an offset greater than t: every
\* offset o > t that Read returned a record for before the call is read
\* with the same record after it, and when there is such an offset
\* HighestOffset answers the same before and after.
C24_TruncateKeepsAbove ==
    [][(cnt'.trunc = cnt.trunc + 1 /\ ret'.op = "Truncate")
        => /\ \A o \in Args :
                 (o > ret'.arg /\ LogRead(World, o).err = "nil")
                    => /\ LogRead(World', o).err = "nil"
                       /\ LogRead(World', o).value = LogRead(World, o).value
           /\ (\E o \in Args : o > ret'.arg /\ LogRead(World, o).err = "nil")
                 => LogHighestOffset(World') = LogHighestOffset(World)]_vars

\* Truncate(1) removed the segments of offsets 0 and 1 and kept offset 2
C24_Witness ==
    /\ ret.op = "Truncate" /\ ret.err = "nil" /\ ret.arg = 1
    /\ Len(hist) = 3
    /\ Len(lg.segments) < Len(heap)
    /\ LogRead(World, 1).err = "OutOfRange"
    /\ LogRead(World, 2).err = "nil"
    /\ LogRead(World, 2).value = hist[3].value
    /\ LogHighestOffset(World).off = 2

\* what a caller can see of the log in world w: Read of every offset,
\* LowestOffset and HighestOffset
Visible(w) ==
    [reads |-> [o \in Args |-> [value |-> LogRead(w, o).value,
                                 err |-> LogRead(w, o).err]],
     lo |-> LogLowestOffset(w),
     hi |-> LogHighestOffset(w)]

\* C25: a Log.Append that returns an error stores no record and assigns no
\* offset: Read of every offset, LowestOffset and HighestOffset answer after
\* the call what they answered before it, and an append that succeeds next
\* returns the offset the failed one would have had, the nextOffset of the
\* segment that was active.
C25_FailedAppendInvisible ==
    [][(cnt'.app = cnt.app + 1 /\ ret'.op = "Append"
          /\ ret'.err \notin {"nil", "fault"})
        => /\ Visible(World') = Visible(World)
           /\ \A v \in Values :
                 LogAppend(World', v).err = "nil"
                    => LogAppend(World', v).offset
                          = heap[lg.activeSegment].nextOffset]_vars

\* the whole frames among the frames fr
WholeFrames(fr) == SelectSeq(fr, LAMBDA f : f # <<-1>>)

\* the frames fr are the first records this Log appended, in offset order
RunOfRecords(fr) ==
    /\ Len(fr) <= Len(hist)
    /\ fr = SubSeq(SerializedRecords, 1, Len(fr))

\* C26: while another thread appends, what has been read of a stream
\* Log.Reader returned is, frame by frame, a run of the log's records in
\* offset order from the lowest offset on, none skipped, repeated or out of
\* order; and read to its end the stream is whole frames only.
C26_StreamUnderAppends ==
    (rd.open /\ Open)
        => /\ RunOfRecords(WholeFrames(ParseFrames(rd.out)))
           /\ StreamEnded => ParseFrames(rd.out) = WholeFrames(ParseFrames(rd.out))

====
